---- MODULE Spec2Model ----
(***************************************************************************)
(* Model of the recursive research orchestrator deepResearch of           *)
(* src/src/deep-research.ts: one top-level call, the tree of recursive    *)
(* calls it makes, the branch tasks each call fans out through its        *)
(* p-limit limiter, and the aggregation of their results.                 *)
(*                                                                         *)
(* A call (node) is named by its path from the top-level call: <<>> is    *)
(* the top-level call and Append(n, i) the recursive call made by branch  *)
(* i of call n.  One action is one turn of the JavaScript event loop: the *)
(* arrival of the response of an external call together with every        *)
(* synchronous statement and promise reaction that follows it.            *)
(*                                                                         *)
(* UnitSpec takes the functions around it one at a time, each called on   *)
(* its own: generateSerpQueries with the parsing of the model's text,     *)
(* processSerpResult, writeFinalReport, and trimPrompt of                 *)
(* src/unnamed/part_001.                                                   *)
(***************************************************************************)
EXTENDS Integers, Sequences, FiniteSets, TLC

\* ------------------------------------------------------------------ bounds
MaxDepth == 3
MaxTree == 4
WideBreadth == 5
WideDepth == 2
WideTree == 20
MaxLines == 3
MaxQueries == 2
MaxAnswers == 4
MaxUrls == 2
MaxBlocks == 15
MaxBudgetBlocks == 10
MaxResults == 3
MaxLimit == 2

\* ------------------------------------------------------ program constants
ConcurrencyLimit == 2

VARIABLES calls, observer, env, unit

vars == <<calls, observer, env, unit>>

\* ------------------------------------------------------------ pure helpers
Root == <<>>

Parent(n) == SubSeq(n, 1, Len(n) - 1)

Range(s) == {s[k] : k \in 1..Len(s)}

Min(a, b) == IF a < b THEN a ELSE b

\* the one element of a singleton; The({e(x) : x \in {v}}) is e of the value v
The(set) == CHOOSE x \in set : TRUE

\* lodash compact: drops the falsy entries (a document without url)
Compact(s) == SelectSeq(s, LAMBDA x : x # "")

\* the flattened list returned as it is
DedupeNone(list) == list

\* [...new Set(list)]: first occurrences, in order
RECURSIVE Dedupe(_)
Dedupe(list) ==
  The({IF s = <<>> THEN <<>>
       ELSE The({IF s[Len(s)] \in Range(r) THEN r ELSE Append(r, s[Len(s)]) :
                 r \in {Dedupe(SubSeq(s, 1, Len(s) - 1))}}) :
       s \in {list}})

\* results.flatMap(r => r.learnings) / results.flatMap(r => r.visitedUrls)
RECURSIVE FlatMapLearnings(_)
FlatMapLearnings(rs) ==
  IF rs = <<>> THEN <<>> ELSE rs[1].learnings \o FlatMapLearnings(Tail(rs))

RECURSIVE FlatMapUrls(_)
FlatMapUrls(rs) ==
  IF rs = <<>> THEN <<>> ELSE rs[1].visitedUrls \o FlatMapUrls(Tail(rs))

\* Math.floor instead of Math.ceil
NewBreadthFloor(breadth) == breadth \div 2

\* const newBreadth = Math.ceil(breadth / 2)
NewBreadth(breadth) == (breadth + 1) \div 2

\* const newDepth = depth - 1
NewDepth(depth) == depth - 1

\* if (newDepth !== 0): a used-up budget told by equality
RecursesNonZero(depth) == NewDepth(depth) # 0

\* the test made on depth instead of newDepth
RecursesOffByOne(depth) == depth > 0

\* if (newDepth > 0) ... deepResearch(...)
Recurses(depth) == NewDepth(depth) > 0

EmptyResult == [learnings |-> <<>>, visitedUrls |-> <<>>]

\* ------------------------------------------------ responses of the outside
\* documents of a search response, each reduced to its url ("" = no url):
\* no document at all, or one without url followed by one with
DocLists == {<<>>, <<"", "u1">>}

SearchOutcomes ==
  {[kind |-> "ok", msg |-> "", data |-> d] : d \in DocLists}
  \cup {[kind |-> "throw", msg |-> m, data |-> <<>>] : m \in {"Timeout", "Error"}}

LearningLists == {<<"L1">>, <<"L2">>}

\* generateObject of processSerpResult: an object, an exception (failure or
\* abort by the timeout signal), or an object without the learnings field
ExtractOutcomes ==
  {[kind |-> "ok", learnings |-> l] : l \in LearningLists}
  \cup {[kind |-> k, learnings |-> <<>>] : k \in {"throw", "malformed"}}

\* the arguments a caller may pass to the top-level call
InitialArgs ==
  {[learnings |-> <<>>, visitedUrls |-> <<>>],
   [learnings |-> <<"L0">>, visitedUrls |-> <<"u0">>]}

\* number of branch tasks of the full call tree of (breadth, depth)
RECURSIVE TreeSize(_, _)
TreeSize(b, d) ==
  b + (IF d > 1 THEN b * TreeSize((b + 1) \div 2, d - 1) ELSE 0)

\* the small call trees: fewer sub-queries than the limiter has slots, as
\* many, and one more; depth is any integer >= 0 the caller passes
SmallBreadths == 1..(ConcurrencyLimit + 1)

Configs ==
  {c \in SmallBreadths \X (0..MaxDepth) : TreeSize(c[1], c[2]) <= MaxTree}

\* --------------------------------------------------------------- records
\* a call that does not take over learnings and visitedUrls and starts
\* from their defaults []
NewCallWithoutArgs(breadth, depth, learnings, visitedUrls) ==
  [pc |-> "generating",
   gen |-> "",
   breadth |-> breadth,
   depth |-> depth,
   learnings |-> <<>>,
   visitedUrls |-> <<>>,
   br |-> <<>>,
   progress |-> [currentDepth |-> depth, totalDepth |-> depth,
                 currentBreadth |-> breadth, totalBreadth |-> breadth,
                 currentQuery |-> 0, totalQueries |-> 0,
                 completedQueries |-> 0],
   result |-> EmptyResult]

\* a freshly invoked deepResearch: the progress record is built and
\* generateSerpQueries is awaited
NewCall(breadth, depth, learnings, visitedUrls) ==
  [pc |-> "generating",
   gen |-> "",
   breadth |-> breadth,
   depth |-> depth,
   learnings |-> learnings,
   visitedUrls |-> visitedUrls,
   br |-> <<>>,
   progress |-> [currentDepth |-> depth, totalDepth |-> depth,
                 currentBreadth |-> breadth, totalBreadth |-> breadth,
                 currentQuery |-> 0, totalQueries |-> 0,
                 completedQueries |-> 0],
   result |-> EmptyResult]

\* a task handed to limit(): queued until the limiter starts it
NewBranch ==
  [st |-> "queued", search |-> "", docs |-> 0, extract |-> "", report |-> "",
   newUrls |-> <<>>, newLearnings |-> <<>>, res |-> EmptyResult]

Running == {"searching", "extracting", "recursing"}

\* ----------------------------------------------------------------- p-limit
\* one module-level limiter shared by every call of the tree
LimiterOfShared(n) == Root

\* const limit = pLimit(ConcurrencyLimit) inside deepResearch: every call
\* owns its limiter
LimiterOf(n) == n

Tasks(S) == UNION {{<<n, i>> : i \in 1..Len(S[n].br)} : n \in DOMAIN S}

\* a limiter whose slot is given back when the task starts its recursion
ActiveCountWithoutRecursing(S, lim) ==
  Cardinality({t \in Tasks(S) : LimiterOf(t[1]) = lim
                                /\ S[t[1]].br[t[2]].st \in {"searching", "extracting"}})

\* activeCount of p-limit: tasks started and not yet settled
ActiveCount(S, lim) ==
  Cardinality({t \in Tasks(S) : LimiterOf(t[1]) = lim
                                /\ S[t[1]].br[t[2]].st \in Running})

Queued(S, lim) ==
  {t \in Tasks(S) : LimiterOf(t[1]) = lim /\ S[t[1]].br[t[2]].st = "queued"}

\* a limiter that starts the task queued last
QueueLast(Q) == CHOOSE t \in Q : \A u \in Q : u[1] = t[1] => t[2] >= u[2]

\* the head of the limiter's queue: tasks of one call are queued in
\* sub-query order
QueueHead(Q) == CHOOSE t \in Q : \A u \in Q : u[1] = t[1] => t[2] <= u[2]

\* p-limit: while a slot is free and a task is queued, start the oldest
\* one; the started task runs up to its first await, the search call
RECURSIVE Admit(_, _)
Admit(S0, lim) ==
  The({IF ActiveCount(S, lim) < ConcurrencyLimit /\ Queued(S, lim) # {}
       THEN LET t == QueueHead(Queued(S, lim))
            IN  Admit([S EXCEPT ![t[1]].br[t[2]].st = "searching"], lim)
       ELSE S : S \in {S0}})

\* ------------------------------------------------------- progress reports
\* the update assigned to a copy of the record: the record keeps its fields
ReportProgressDropped(S, n, update) == S

\* progress = update: the record replaced, the fields not reported reset
ReportProgressReplace(S, n, update) ==
  [S EXCEPT ![n].progress =
     [f \in DOMAIN S[n].progress |->
        IF f \in DOMAIN update THEN update[f] ELSE 0]]

\* reportProgress: Object.assign(progress, update) of the call's one record
ReportProgress(S, n, update) ==
  [S EXCEPT ![n].progress =
     [f \in DOMAIN S[n].progress |->
        IF f \in DOMAIN update THEN update[f] ELSE S[n].progress[f]]]

\* a counter read when the call began and written back after the awaits:
\* every branch writes the same value
CompletedStale(progress) == 1

\* completedQueries: progress.completedQueries + 1, read and written in
\* the one synchronous call of reportProgress
Completed(progress) == progress.completedQueries + 1

\* whether onProgress?.(progress) may throw at a report
MayThrow == IF observer = "throws" THEN BOOLEAN ELSE {FALSE}

\* ------------------------------------------------------------ aggregation
Results(S, n) == [i \in 1..Len(S[n].br) |-> S[n].br[i].res]

\* return { learnings: [...new Set(flatMap)], visitedUrls: [...new Set(flatMap)] }
Aggregate(rs) ==
  [learnings |-> Dedupe(FlatMapLearnings(rs)),
   visitedUrls |-> Dedupe(FlatMapUrls(rs))]

\* Promise.race / Promise.any in place of Promise.all
AnySettled(S, n) == \E i \in 1..Len(S[n].br) : S[n].br[i].st = "settled"

\* Promise.all(...) fulfils when every branch promise has fulfilled
AllSettled(S, n) == \A i \in 1..Len(S[n].br) : S[n].br[i].st = "settled"

\* a catch that swallows timeouts only and rethrows every other exception
BranchCatchesTimeoutOnly(msg) == msg = "Timeout"

\* a branch task without try/catch
BranchCatchesNothing(msg) == FALSE

\* catch (e: any) { ... return { learnings: [], visitedUrls: [] } } of the
\* branch task: every exception raised inside the try block is caught
BranchCatches(msg) == TRUE

\* --------------------------------------------- settling, return, rejection
\* Settle: the promise of branch i of call n fulfils with res; p-limit
\*         frees the slot and starts the next task; Promise.all of n may
\*         fulfil.
\* Return: deepResearch n fulfils with the aggregate; the branch of the
\*         parent that returned this call's promise fulfils with it.
\* RejectBranch: the promise of branch i of n rejects; p-limit frees the
\*         slot; Promise.all of n rejects at once, and so does n.
RECURSIVE Settle(_, _, _, _), Return(_, _), RejectBranch(_, _, _)
Settle(S, n, i, res) ==
  The({IF S2[n].pc = "fanout" /\ AllSettled(S2, n) THEN Return(S2, n) ELSE S2 :
       S2 \in {Admit([S EXCEPT ![n].br[i].st = "settled",
                               ![n].br[i].res = res], LimiterOf(n))}})

Return(S, n) ==
  The({IF n = Root THEN S1 ELSE Settle(S1, Parent(n), n[Len(n)], S1[n].result) :
       S1 \in {[S EXCEPT ![n].pc = "returned",
                         ![n].result = Aggregate(Results(S, n))]}})

RejectBranch(S, n, i) ==
  The({IF S2[n].pc # "fanout" THEN S2
       ELSE IF n = Root THEN [S2 EXCEPT ![n].pc = "rejected"]
       ELSE RejectBranch([S2 EXCEPT ![n].pc = "rejected"],
                         Parent(n), n[Len(n)]) :
       S2 \in {Admit([S EXCEPT ![n].br[i].st = "rejected"], LimiterOf(n))}})

\* return await deepResearch(...): the rejection of the recursive call is
\* raised inside the try block of the parent's branch and caught there
RejectAwaited(S, n) ==
  LET S1 == [S EXCEPT ![n].pc = "rejected"]
  IN  IF n = Root THEN S1
      ELSE Settle(S1, Parent(n), n[Len(n)], EmptyResult)

\* deepResearch n rejects before its fan-out (the initial report threw);
\* the parent's branch returned this call's promise without awaiting it, so
\* its catch does not see the rejection and the branch promise rejects
Reject(S, n) ==
  LET S1 == [S EXCEPT ![n].pc = "rejected"]
  IN  IF n = Root THEN S1 ELSE RejectBranch(S1, Parent(n), n[Len(n)])

\* an exception with message msg is raised inside the try block of branch i
Raise(S, n, i, msg) ==
  IF BranchCatches(msg) THEN Settle(S, n, i, EmptyResult)
  ELSE RejectBranch(S, n, i)

\* ------------------------------------------------------------------ Init
\* The top-level call has been made and awaits generateSerpQueries.  With
\* env = "any" every external call may give any of its answers and the call
\* tree is small; with env = "fixed" the answers are the fixed ones below
\* and the tree is wide: sub-queries outnumber the limiter's slots.
Observers == {"ok", "throws"}

\* no function is under unit examination while deepResearch runs
NoUnit == [fn |-> "none"]

WideConfigs ==
  {c \in (1..WideBreadth) \X (1..WideDepth) :
     TreeSize(c[1], c[2]) <= WideTree /\ c[1] > ConcurrencyLimit}

Init ==
  /\ unit = NoUnit
  /\ \/ /\ env = "any"
        /\ observer \in Observers
        /\ \E c \in Configs, a \in InitialArgs :
             calls = (Root :> NewCall(c[1], c[2], a.learnings, a.visitedUrls))
     \/ /\ env = "fixed"
        /\ observer = "ok"
        /\ \E c \in WideConfigs :
             calls = (Root :> NewCall(c[1], c[2], <<>>, <<>>))

\* the answers of the fixed environment: the model answers the call of a
\* fourth branch with an exception and any other with one line more than
\* asked for; the search of every third sub-query times out; the
\* extraction of every second sub-query fails
FixedGen(n) ==
  IF n # Root /\ n[Len(n)] = 4 THEN <<"throw", 0>>
  ELSE <<"ok", calls[n].breadth + 1>>

FixedSearch(i) ==
  IF i % 3 = 0 THEN [kind |-> "throw", msg |-> "Timeout", data |-> <<>>]
  ELSE [kind |-> "ok", msg |-> "",
        data |-> IF i % 2 = 1 THEN <<"u1">> ELSE <<"", "u2">>]

FixedExtract(i) ==
  IF i % 2 = 0 THEN [kind |-> "throw", learnings |-> <<>>]
  ELSE [kind |-> "ok", learnings |-> <<"L1">>]

GenAnswers(n) ==
  IF env = "fixed" THEN {FixedGen(n)}
  ELSE {<<"throw", 0>>} \cup {<<"ok", q>> : q \in 0..(calls[n].breadth + 1)}

SearchAnswers(i) == IF env = "fixed" THEN {FixedSearch(i)} ELSE SearchOutcomes

ExtractAnswers(i) == IF env = "fixed" THEN {FixedExtract(i)} ELSE ExtractOutcomes

\* --------------------------------------------------------------- actions
\* generateSerpQueries settles: the model's text parsed into `parsed`
\* sub-queries (only their number matters here) and cut to numQueries, or
\* an exception, which it turns into []; then the initial report, the
\* limiter and the fan-out
\* a catch that falls back to the user's query as the one sub-query
SerpQueriesFallback(numQueries, kind, parsed) ==
  IF kind = "throw" THEN 1 ELSE Min(parsed, numQueries)

SerpQueries(numQueries, kind, parsed) ==
  IF kind = "throw" THEN 0 ELSE Min(parsed, numQueries)

GenReturn(n, kind, parsed, thr) ==
  /\ n \in DOMAIN calls
  /\ calls[n].pc = "generating"
  /\ LET k  == SerpQueries(calls[n].breadth, kind, parsed)
         S1 == ReportProgress([calls EXCEPT ![n].gen = kind], n,
                 [totalQueries |-> k, currentQuery |-> IF k > 0 THEN 1 ELSE 0])
         S2 == [S1 EXCEPT ![n].pc = "fanout",
                          ![n].br = [i \in 1..k |-> NewBranch]]
         S3 == Admit(S2, LimiterOf(n))
     IN  calls' = IF thr THEN Reject(S1, n)
                  ELSE IF k = 0 THEN Return(S3, n)
                  ELSE S3
  /\ UNCHANGED <<observer, env, unit>>

\* firecrawl.search settles for branch i of call n
SearchReturn(n, i, out) ==
  /\ n \in DOMAIN calls
  /\ i \in 1..Len(calls[n].br)
  /\ calls[n].br[i].st = "searching"
  /\ calls' =
       IF out.kind = "throw"
       THEN Raise([calls EXCEPT ![n].br[i].search = out.msg], n, i, out.msg)
       ELSE [calls EXCEPT ![n].br[i].search = "ok",
                          ![n].br[i].docs = Len(out.data),
                          ![n].br[i].newUrls = Compact(out.data),
                          ![n].br[i].st = "extracting"]
  /\ UNCHANGED <<observer, env, unit>>

\* processSerpResult without its try/catch: the exception reaches the branch
ProcessSerpResultUncaught(out) ==
  IF out.kind = "throw"
  THEN [kind |-> "malformed", learnings |-> <<>>, followUpQuestions |-> <<>>]
  ELSE out

\* processSerpResult: the object of generateObject, or on any exception
\* { learnings: [], followUpQuestions: [] }
ProcessSerpResult(out) ==
  IF out.kind = "throw"
  THEN [kind |-> "ok", learnings |-> <<>>, followUpQuestions |-> <<>>]
  ELSE out

\* processSerpResult settles for branch i of call n: merge, then recurse or
\* finish as a leaf
ExtractReturn(n, i, out, thr) ==
  /\ n \in DOMAIN calls
  /\ i \in 1..Len(calls[n].br)
  /\ calls[n].br[i].st = "extracting"
  /\ LET c == calls[n]
         newLearnings == ProcessSerpResult(out)
         allLearnings == c.learnings \o newLearnings.learnings
         allUrls == c.visitedUrls \o c.br[i].newUrls
         newBreadth == NewBreadth(c.breadth)
         newDepth == NewDepth(c.depth)
         S0 == [calls EXCEPT ![n].br[i].extract = out.kind,
                             ![n].br[i].newLearnings = newLearnings.learnings]
         SR == [S0 EXCEPT ![n].br[i].report = IF thr THEN "throw" ELSE "ok"]
         S1 == IF Recurses(c.depth)
               THEN ReportProgress(SR, n,
                      [currentDepth |-> newDepth,
                       currentBreadth |-> newBreadth,
                       completedQueries |-> Completed(c.progress),
                       currentQuery |-> i])
               ELSE ReportProgress(SR, n,
                      [currentDepth |-> 0,
                       completedQueries |-> Completed(c.progress),
                       currentQuery |-> i])
         child == Append(n, i)
     IN  calls' =
           IF newLearnings.kind = "malformed" THEN Raise(S0, n, i, "TypeError")
           ELSE IF thr THEN Raise(S1, n, i, "Observer")
           ELSE IF Recurses(c.depth)
           THEN (child :> NewCall(newBreadth, newDepth, allLearnings, allUrls))
                @@ [S1 EXCEPT ![n].br[i].st = "recursing"]
           ELSE Settle(S1, n, i,
                       [learnings |-> allLearnings, visitedUrls |-> allUrls])
  /\ UNCHANGED <<observer, env, unit>>

Next ==
  \/ \E n \in DOMAIN calls, thr \in MayThrow :
       \E g \in GenAnswers(n) : GenReturn(n, g[1], g[2], thr)
  \/ \E n \in DOMAIN calls :
       \E i \in 1..Len(calls[n].br) : \E out \in SearchAnswers(i) :
         SearchReturn(n, i, out)
  \/ \E n \in DOMAIN calls, thr \in MayThrow :
       \E i \in 1..Len(calls[n].br) : \E out \in ExtractAnswers(i) :
         ExtractReturn(n, i, out, thr)

Spec == Init /\ [][Next]_vars

\* The run as src/src/run.ts starts it (no learnings or URLs passed in, an
\* observer that does not throw), in which every external call eventually
\* returns or fails: a pending response is eventually delivered.
InitRun ==
  /\ Init
  /\ observer = "ok"
  /\ calls[Root].learnings = <<>>
  /\ calls[Root].visitedUrls = <<>>

FairSpec == InitRun /\ [][Next]_vars /\ WF_vars(Next)

\* ------------------------------------------------- generateSerpQueries
\* A line of the model's text is a sequence of characters; the words
\* "Focus:" and "focus:" stand as one element each.  A string is the
\* sequence of its characters, "" is <<>>.
Digits == {"1", "2", "3"}

Quote == "\""

\* the character at position k, "" past the end
At(line, k) == IF k \in 1..Len(line) THEN line[k] ELSE ""

\* String.prototype.trim
Trim(str) ==
  LET solid == {k \in 1..Len(str) : str[k] # " "}
  IN  IF solid = {} THEN <<>>
      ELSE SubSeq(str, CHOOSE a \in solid : \A k \in solid : a <= k,
                       CHOOSE b \in solid : \A k \in solid : b >= k)

\* .replace(/^\*|\*$/g, ''): a leading and a trailing star removed
StripStars(str) ==
  LET a == IF At(str, 1) = "*" THEN 2 ELSE 1
      b == IF Len(str) >= a /\ str[Len(str)] = "*" THEN Len(str) - 1 ELSE Len(str)
  IN  SubSeq(str, a, b)

\* the ways /^\d+[\.\)]?\s*\*?\*?"?([^"]+)"?\*?\*?/ can reach its group:
\* <<digits, dot, spaces, star, star, quote>> taken before it, the group
\* starting at a character that is there and is not a quote
GroupStart(c) == c[1] + c[2] + c[3] + c[4] + c[5] + c[6] + 1

Reaches(line) ==
  {c \in {k \in 1..Len(line) : line[k] \in Digits} \X {0, 1}
          \X (0..Cardinality({k \in 1..Len(line) : line[k] = " "}))
          \X {0, 1} \X {0, 1} \X {0, 1} :
     /\ \A k \in 1..c[1] : line[k] \in Digits
     /\ c[2] = 1 => At(line, c[1] + 1) \in {".", ")"}
     /\ \A k \in 1..c[3] : At(line, c[1] + c[2] + k) = " "
     /\ c[4] = 1 => At(line, c[1] + c[2] + c[3] + 1) = "*"
     /\ c[5] = 1 => At(line, c[1] + c[2] + c[3] + c[4] + 1) = "*"
     /\ c[6] = 1 => At(line, c[1] + c[2] + c[3] + c[4] + c[5] + 1) = Quote
     /\ At(line, GroupStart(c)) \notin {"", Quote}}

\* the order in which the backtracking matcher tries them: every quantifier
\* is greedy, the earlier one decides first
TriedBefore(c, d) ==
  \E k \in 1..6 : c[k] > d[k] /\ \A j \in 1..(k - 1) : c[j] = d[j]

\* line.match(...): <<>> for null, else <<queryMatch[1]>>, the longest run
\* without a quote from the start of the group
QueryMatch(line) ==
  The({IF reaches = {} THEN <<>>
       ELSE LET c == CHOOSE x \in reaches :
                       \A y \in reaches : y = x \/ TriedBefore(x, y)
                from == GroupStart(c)
                to == CHOOSE e \in from..Len(line) :
                        /\ \A k \in from..e : line[k] # Quote
                        /\ At(line, e + 1) \in {"", Quote}
            IN  <<SubSeq(line, from, to)>> :
       reaches \in {Reaches(line)}})

\* line.toLowerCase().includes('focus:')
IncludesFocus(line) == \E k \in 1..Len(line) : line[k] \in {"Focus:", "focus:"}

\* line.split('Focus:')[1]: <<>> for undefined, else <<the second piece>>
SplitFocus(line) ==
  LET at == {k \in 1..Len(line) : line[k] = "Focus:"}
  IN  IF at = {} THEN <<>>
      ELSE LET first == CHOOSE a \in at : \A k \in at : a <= k
               rest == SubSeq(line, first + 1, Len(line))
               more == {k \in 1..Len(rest) : rest[k] = "Focus:"}
           IN  <<IF more = {} THEN rest
                 ELSE SubSeq(rest, 1, (CHOOSE a \in more : \A k \in more : a <= k) - 1)>>

\* the for loop over the lines: st.cur is <<>> for currentQuery = null and
\* <<q>> for a query under construction; st.kind = "throw" once a statement
\* of the loop has raised
ParseLine(st, line) ==
  LET closed(goal) ==
        [st EXCEPT !.queries = Append(st.queries,
                                      [st.cur[1] EXCEPT !.researchGoal = goal]),
                   !.cur = <<>>]
  IN  The({IF st.kind = "throw" THEN st
           ELSE IF queryMatch # <<>>
           THEN [st EXCEPT !.queries = IF st.cur # <<>>
                                       THEN Append(st.queries, st.cur[1])
                                       ELSE st.queries,
                           !.cur = <<[query |-> Trim(queryMatch[1]),
                                      researchGoal |-> <<>>]>>]
           ELSE IF st.cur # <<>> /\ IncludesFocus(line)
           THEN IF SplitFocus(line) = <<>> THEN [st EXCEPT !.kind = "throw"]
                ELSE closed(StripStars(Trim(SplitFocus(line)[1])))
           ELSE IF st.cur # <<>> /\ At(line, 1) \notin {"*", "-"}
           THEN closed(StripStars(Trim(line)))
           ELSE st :
           queryMatch \in {QueryMatch(line)}})

RECURSIVE ParseLines(_, _)
ParseLines(st, lines) ==
  IF lines = <<>> THEN st ELSE ParseLines(ParseLine(st, lines[1]), Tail(lines))

\* the try block after generateText answered: split and filter the lines,
\* the loop, the last query, the slice
ParseQueries(text, numQueries) ==
  LET lines == SelectSeq(text, LAMBDA line : Trim(line) # <<>>)
      st == ParseLines([kind |-> "ok", queries |-> <<>>, cur |-> <<>>], lines)
      queries == IF st.cur # <<>> THEN Append(st.queries, st.cur[1])
                 ELSE st.queries
  IN  IF st.kind = "throw" THEN [kind |-> "throw", queries |-> <<>>]
      ELSE [kind |-> "return",
            queries |-> SubSeq(queries, 1, Min(Len(queries), numQueries))]

\* the try block closed after generateText: an exception of the parsing
\* reaches the caller
GenerateSerpQueriesParseUncaught(resp, numQueries) ==
  IF resp.kind = "throw" THEN [kind |-> "return", queries |-> <<>>]
  ELSE ParseQueries(resp.text, numQueries)

\* generateSerpQueries: the whole body in try, catch (error) { return [] }
GenerateSerpQueries(resp, numQueries) ==
  IF resp.kind = "throw" THEN [kind |-> "return", queries |-> <<>>]
  ELSE The({IF parsed.kind = "throw" THEN [kind |-> "return", queries |-> <<>>]
            ELSE parsed :
            parsed \in {ParseQueries(resp.text, numQueries)}})

\* lines a model may write: numbered queries (plain, quoted, with a space
\* at the end, with nothing but a space after the number), a number alone,
\* a goal after "Focus:" and after "focus:", a bullet, a starred line, plain
\* text, a line of one space
Lines ==
  {<<"1", ".", " ", "a">>,
   <<"2", ")", " ", Quote, "a", Quote>>,
   <<"3", ".", " ", "*", "*", "b", " ">>,
   <<"1", ".", " ">>,
   <<"1">>,
   <<"Focus:", " ", "g", "*">>,
   <<"focus:", " ", "g">>,
   <<"-", " ", "a">>,
   <<"*", "g">>,
   <<"g", " ", "h">>,
   <<" ">>}

RECURSIVE Texts(_)
Texts(len) ==
  IF len = 0 THEN {<<>>}
  ELSE Texts(len - 1)
         \cup {Append(t, l) : t \in {u \in Texts(len - 1) : Len(u) = len - 1},
                              l \in Lines}

\* what generateText answers: a text of at most MaxLines lines, or an
\* exception
TextResponses ==
  {[kind |-> "ok", text |-> t] : t \in Texts(MaxLines)}
  \cup {[kind |-> "throw", text |-> <<>>]}

\* --------------------------------------------------- processSerpResult
\* what generateObject answers when processSerpResult is called on its
\* own: an object with two lists of any length up to MaxAnswers, or an
\* exception
ListOf(len) == [k \in 1..len |-> "x"]

ObjectResponses ==
  {[kind |-> "ok", learnings |-> ListOf(a), followUpQuestions |-> ListOf(b)] :
     a \in 0..MaxAnswers, b \in 0..MaxAnswers}
  \cup {[kind |-> "throw", learnings |-> <<>>, followUpQuestions |-> <<>>]}

\* numLearnings = 3, numFollowUpQuestions = 3
DefaultMax == 3

\* ---------------------------------------------------- writeFinalReport
\* A report is the sequence of its pieces.
SourcesHeader == "\n\n## Sources\n\n"

\* visitedUrls.map(url => `- ${url}`).join('\n')
RECURSIVE UrlLines(_)
UrlLines(urls) ==
  IF urls = <<>> THEN <<>>
  ELSE <<"- ", urls[1]>>
         \o (IF Len(urls) > 1 THEN <<"\n">> ELSE <<>>) \o UrlLines(Tail(urls))

\* the catch returning the error message alone
WriteFinalReportBareError(resp, deepseek, visitedUrls) ==
  IF resp.kind = "throw"
  THEN [kind |-> "return", text |-> <<"Error generating report: ", resp.msg>>]
  ELSE [kind |-> "return",
        text |-> resp.text \o <<SourcesHeader>> \o UrlLines(visitedUrls)]

\* writeFinalReport: generateText failed (the outer catch), or answered:
\* then the report is result.text, or with a deepseek model the
\* reportMarkdown of the parsed raw content ("undefined" when the parsed
\* object has none; result.text from the inner catch when that raises)
WriteFinalReport(resp, deepseek, visitedUrls) ==
  LET urlsSection == <<SourcesHeader>> \o UrlLines(visitedUrls)
  IN  IF resp.kind = "throw"
      THEN [kind |-> "return",
            text |-> <<"Error generating report: ", resp.msg,
                       "\n\n## Sources\n\n">> \o UrlLines(visitedUrls)]
      ELSE IF deepseek = "none" THEN [kind |-> "return", text |-> resp.text \o urlsSection]
      ELSE IF deepseek = "raises" THEN [kind |-> "return", text |-> resp.text \o urlsSection]
      ELSE IF deepseek = "parsed" THEN [kind |-> "return", text |-> resp.raw \o urlsSection]
      ELSE [kind |-> "return", text |-> <<"undefined">> \o urlsSection]

\* what generateText answers to the report prompt
ReportResponses ==
  {[kind |-> "ok", msg |-> "", text |-> t, raw |-> r] :
     t \in {<<>>, <<"report">>}, r \in {<<"markdown">>}}
  \cup {[kind |-> "throw", msg |-> m, text |-> <<>>, raw |-> <<>>] :
          m \in {"Unknown error", "rate limit"}}

\* process.env.OPENAI_MODEL?.includes('deepseek') and what reading the raw
\* content then does
DeepseekPaths == {"none", "raises", "parsed", "undefined"}

RECURSIVE UrlLists(_)
UrlLists(len) ==
  IF len = 0 THEN {<<>>}
  ELSE UrlLists(len - 1)
         \cup {Append(u, x) : u \in {v \in UrlLists(len - 1) : Len(v) = len - 1},
                              x \in {"u1", "u2"}}

\* ----------------------------------------------------------- trimPrompt
MinChunkSize == 140

\* A prompt is known by its length in characters and by the characters its
\* text takes per token; encoder.encode(prompt).length of a text of chars
\* characters at per characters a token
Tokens(chars, per) == (chars + per - 1) \div per

\* prompt lengths and budgets are taken in steps
CharStep == 20

Lengths == {CharStep * k : k \in 0..MaxBlocks}

Budgets == {1} \cup {CharStep * k : k \in 1..MaxBudgetBlocks}

Densities == 1..4

\* splitter.splitText(prompt)[0] ?? '': the first chunk, at most chunkSize
\* characters, cut at a separator where there is one; the text as it was
\* when the splitter leaves it whole
SplitFirst(length, chunkSize) ==
  {c \in Lengths : c <= Min(length, chunkSize)}
    \cup {Min(length, chunkSize), length}

\* one invocation of trimPrompt on a prompt of `length` characters:
\* <<"return", n>> returns n characters, <<"again", n>> is the recursive
\* call on n characters
TrimPrompt(length, per, contextSize, firstChunk) ==
  LET tokens == Tokens(length, per)
      overflowTokens == tokens - contextSize
      chunkSize == length - overflowTokens * 3
  IN  IF length = 0 THEN <<"return", 0>>
      ELSE IF tokens <= contextSize THEN <<"return", length>>
      ELSE IF chunkSize < MinChunkSize THEN <<"return", Min(length, MinChunkSize)>>
      ELSE IF firstChunk = length THEN <<"again", Min(length, chunkSize)>>
      ELSE <<"again", firstChunk>>

ChunkSize(length, per, contextSize) ==
  length - (Tokens(length, per) - contextSize) * 3

\* ------------------------------------------- the functions on their own
\* ------------------------------------------- search (src/unnamed/part_000)
\* The DuckDuckGo search adapter.  What axios.get and the parsing of the
\* page may raise: an axios error carries a code, an Error a message, and
\* anything else may be thrown too.
AdapterErrors ==
  {[axios |-> TRUE, code |-> "ECONNABORTED", isError |-> TRUE,
    message |-> "timeout of 15000ms exceeded"],
   [axios |-> TRUE, code |-> "ERR_BAD_RESPONSE", isError |-> TRUE,
    message |-> "Request failed with status code 500"],
   [axios |-> TRUE, code |-> "ENOTFOUND", isError |-> TRUE,
    message |-> "getaddrinfo ENOTFOUND duckduckgo.com"],
   [axios |-> FALSE, code |-> "", isError |-> TRUE,
    message |-> "response.data is not a string"],
   [axios |-> FALSE, code |-> "", isError |-> FALSE, message |-> ""]}

\* decodeURIComponent(match[1]) on a malformed escape sequence
URIError ==
  [axios |-> FALSE, code |-> "", isError |-> TRUE, message |-> "URI malformed"]

\* the .result elements of a page, each with a link that decodes ("ok") or
\* with a malformed one ("bad")
ResultLists(len) ==
  UNION {[1..k -> {"ok", "bad"}] : k \in 0..len}

\* axios.get answers with a page or fails
AdapterResponses ==
  {[kind |-> "page", results |-> r, error |-> URIError] :
     r \in ResultLists(MaxResults)}
  \cup {[kind |-> "fail", results |-> <<>>, error |-> e] : e \in AdapterErrors}

\* the limit parameter
Limits == 0..MaxLimit

\* .each((i, element) => { if (i >= limit) return false; ... }): the
\* elements the callback works on
Visited(results, limit) == SubSeq(results, 1, Min(limit, Len(results)))

\* a catch that turns timeouts into a response and rethrows the rest
SearchCatchTimeoutOnly(error) ==
  IF error.axios /\ error.code = "ECONNABORTED"
  THEN [kind |-> "return", success |-> FALSE, data |-> <<>>,
        error |-> "Timeout"]
  ELSE [kind |-> "throw", success |-> FALSE, data |-> <<>>,
        error |-> error.message]

\* catch (error): 'Timeout' for an axios error with code ECONNABORTED, the
\* message of any other Error, 'Unknown error occurred' for anything else
SearchCatch(error) ==
  IF error.axios /\ error.code = "ECONNABORTED"
  THEN [kind |-> "return", success |-> FALSE, data |-> <<>>,
        error |-> "Timeout"]
  ELSE [kind |-> "return", success |-> FALSE, data |-> <<>>,
        error |-> IF error.isError THEN error.message
                  ELSE "Unknown error occurred"]

\* search(query, params): the whole body in try; one document is pushed
\* per element worked on
Search(resp, limit) ==
  IF resp.kind = "fail" THEN SearchCatch(resp.error)
  ELSE LET seen == Visited(resp.results, limit)
       IN  IF \E k \in 1..Len(seen) : seen[k] = "bad"
           THEN SearchCatch(URIError)
           ELSE [kind |-> "return", success |-> TRUE, data |-> seen,
                 error |-> ""]

\* A function of the module called on its own: unit holds the call (its
\* arguments and what the model answers) and, once it returned, its result.
NoOut == [kind |-> "none"]

UnitCalls ==
  {[fn |-> "generateSerpQueries", pc |-> "called", resp |-> r,
    numQueries |-> q, out |-> NoOut] :
     r \in TextResponses, q \in 1..MaxQueries}
  \cup
  {[fn |-> "processSerpResult", pc |-> "called", resp |-> r,
    numLearnings |-> a, numFollowUpQuestions |-> b, out |-> NoOut] :
     r \in ObjectResponses, a \in 1..DefaultMax, b \in 1..DefaultMax}
  \cup
  {[fn |-> "writeFinalReport", pc |-> "called", resp |-> r, deepseek |-> d,
    visitedUrls |-> u, out |-> NoOut] :
     r \in ReportResponses, d \in DeepseekPaths, u \in UrlLists(MaxUrls)}
  \cup
  {[fn |-> "trimPrompt", pc |-> "called", prompt |-> l, per |-> d,
    contextSize |-> b, out |-> 0] :
     l \in Lengths, d \in Densities, b \in Budgets}
  \cup
  {[fn |-> "search", pc |-> "called", resp |-> r, limit |-> l,
    out |-> NoOut] :
     r \in AdapterResponses, l \in Limits}

UnitInit ==
  /\ calls = <<>>
  /\ observer = "ok"
  /\ env = "any"
  /\ unit \in UnitCalls

GenerateSerpQueriesReturn ==
  /\ unit.fn = "generateSerpQueries"
  /\ unit.pc = "called"
  /\ unit' = [unit EXCEPT !.pc = "returned",
                          !.out = GenerateSerpQueries(unit.resp, unit.numQueries)]
  /\ UNCHANGED <<calls, observer, env>>

ProcessSerpResultReturn ==
  /\ unit.fn = "processSerpResult"
  /\ unit.pc = "called"
  /\ unit' = [unit EXCEPT !.pc = "returned",
                          !.out = ProcessSerpResult(unit.resp)]
  /\ UNCHANGED <<calls, observer, env>>

WriteFinalReportReturn ==
  /\ unit.fn = "writeFinalReport"
  /\ unit.pc = "called"
  /\ unit' = [unit EXCEPT !.pc = "returned",
                          !.out = WriteFinalReport(unit.resp, unit.deepseek,
                                                   unit.visitedUrls)]
  /\ UNCHANGED <<calls, observer, env>>

\* one invocation of trimPrompt: it returns, or calls itself on the
\* shorter prompt
TrimPromptStep ==
  /\ unit.fn = "trimPrompt"
  /\ unit.pc = "called"
  /\ \E firstChunk \in SplitFirst(unit.prompt,
                                   ChunkSize(unit.prompt, unit.per, unit.contextSize)) :
       LET r == TrimPrompt(unit.prompt, unit.per, unit.contextSize, firstChunk)
       IN  unit' = IF r[1] = "return"
                   THEN [unit EXCEPT !.pc = "returned", !.out = r[2]]
                   ELSE [unit EXCEPT !.prompt = r[2]]
  /\ UNCHANGED <<calls, observer, env>>

SearchAdapterReturn ==
  /\ unit.fn = "search"
  /\ unit.pc = "called"
  /\ unit' = [unit EXCEPT !.pc = "returned",
                          !.out = Search(unit.resp, unit.limit)]
  /\ UNCHANGED <<calls, observer, env>>

UnitNext ==
  \/ GenerateSerpQueriesReturn
  \/ ProcessSerpResultReturn
  \/ WriteFinalReportReturn
  \/ TrimPromptStep
  \/ SearchAdapterReturn

UnitSpec == UnitInit /\ [][UnitNext]_vars

\* ------------------------------------------------------ auxiliary notions
Calls == DOMAIN calls

Branches(n) == 1..Len(calls[n].br)

SearchFailed(n, i) == calls[n].br[i].search \in {"Timeout", "Error"}

\* the search calls branch i of call n has made: the task calls
\* firecrawl.search when the limiter starts it and calls no other search
SearchCalls(n, i) == IF calls[n].br[i].st = "queued" THEN 0 ELSE 1

\* branch tasks of call n that have started and have not settled
Unsettled(n) == {i \in Branches(n) : calls[n].br[i].st \in Running}

RECURSIVE SumUnsettled(_)
SumUnsettled(ns) ==
  IF ns = {} THEN 0
  ELSE LET n == CHOOSE m \in ns : TRUE
       IN  Cardinality(Unsettled(n)) + SumUnsettled(ns \ {n})

NoDuplicates(s) == \A j, k \in 1..Len(s) : s[j] = s[k] => j = k

\* no call is in progress and no branch task is queued or running
Quiescent ==
  \A n \in Calls :
    /\ calls[n].pc \in {"returned", "rejected"}
    /\ \A i \in Branches(n) : calls[n].br[i].st \in {"settled", "rejected"}

\* ---------------------------------------------------------------- claims

\* C1: with an observer that does not throw, no deepResearch call of the
\* tree rejects, whatever query generation, search and extraction answer
\* or throw at any node; a call that has settled holds a result.
C1_NeverRejects ==
  observer = "ok" =>
    \A n \in Calls :
      /\ calls[n].pc # "rejected"
      /\ \A i \in Branches(n) : calls[n].br[i].st # "rejected"

\* C1 witness: the top-level call has returned although query generation
\* threw in one call, a search threw and an extraction threw.
C1_Witness ==
  /\ observer = "ok"
  /\ calls[Root].pc = "returned"
  /\ \E n \in Calls : calls[n].gen = "throw"
  /\ \E n \in Calls : \E i \in Branches(n) : SearchFailed(n, i)
  /\ \E n \in Calls : \E i \in Branches(n) : calls[n].br[i].extract = "throw"

\* C2: a branch whose search threw (timeout or other failure alike) is
\* settled with the empty result; its siblings are not cancelled: a call
\* that has returned has every branch settled and its result holds what
\* each sibling contributed.
C2_SearchFailureIsolated ==
  \A n \in Calls :
    /\ \A i \in Branches(n) :
         SearchFailed(n, i) =>
           /\ calls[n].br[i].st = "settled"
           /\ calls[n].br[i].res = EmptyResult
    /\ calls[n].pc = "returned" =>
         \A j \in Branches(n) :
           /\ calls[n].br[j].st = "settled"
           /\ Range(calls[n].br[j].res.learnings)
                \subseteq Range(calls[n].result.learnings)
           /\ Range(calls[n].br[j].res.visitedUrls)
                \subseteq Range(calls[n].result.visitedUrls)

\* C2 witness: a call returned with one branch whose search timed out, one
\* whose search failed otherwise and a sibling that contributed a URL.
C2_Witness ==
  \E n \in Calls :
    /\ calls[n].pc = "returned"
    /\ \E i, j, k \in Branches(n) :
         /\ calls[n].br[i].search = "Timeout"
         /\ calls[n].br[j].search = "Error"
         /\ calls[n].br[k].res.visitedUrls # <<>>
         /\ calls[n].result.visitedUrls # <<>>

C4_ResultKeepsArguments ==
  \A n \in Calls :
    calls[n].pc = "returned" =>
      /\ Range(calls[n].learnings) \subseteq Range(calls[n].result.learnings)
      /\ Range(calls[n].visitedUrls)
           \subseteq Range(calls[n].result.visitedUrls)

\* C5: a recursive call has its parent's depth minus 1, is made only when
\* that value is > 0, and when the depth of the top-level call is >= 1 the
\* nesting of calls never exceeds it.
C5_DepthBoundsNesting ==
  \A n \in Calls :
    /\ calls[Root].depth >= 1 => Len(n) + 1 <= calls[Root].depth
    /\ n # Root =>
         /\ Parent(n) \in Calls
         /\ calls[n].depth = calls[Parent(n)].depth - 1
         /\ calls[n].depth > 0

\* C5 witness: the nesting reaches the depth of the top-level call, which
\* is at least 2, and the innermost call has run a leaf branch.
C5_Witness ==
  \E n \in Calls :
    /\ calls[Root].depth >= 2
    /\ Len(n) + 1 = calls[Root].depth
    /\ \E i \in Branches(n) : calls[n].br[i].st = "settled"

\* C6: the breadth of a recursive call is max(1, ceil(parent breadth / 2)),
\* is not larger than the parent's and is never 0.
C6_ChildBreadth ==
  \A n \in Calls :
    n # Root =>
      LET pb == calls[Parent(n)].breadth
          half == CHOOSE h \in 0..pb : 2 * h >= pb /\ 2 * (h - 1) < pb
      IN  /\ calls[n].breadth = (IF half > 1 THEN half ELSE 1)
          /\ calls[n].breadth <= pb
          /\ calls[n].breadth >= 1

\* C6 witness: a recursive call made from a parent of breadth 1 has breadth
\* 1 again, has generated a sub-query and has returned.
C6_Witness ==
  \E n \in Calls :
    /\ n # Root
    /\ calls[Parent(n)].breadth = 1
    /\ calls[n].breadth = 1
    /\ calls[n].pc = "returned"
    /\ calls[n].br # <<>>

C8_ForwardProgress ==
  <>(Quiescent /\ \A n \in Calls : calls[n].pc = "returned")

\* C8 witness: the run is at rest after a tree in which the sub-queries
\* outnumbered the slots in the top-level call and in a recursive call.
C8_Witness ==
  /\ Quiescent
  /\ Len(calls[Root].br) > ConcurrencyLimit
  /\ \E n \in Calls : n # Root /\ Len(calls[n].br) > ConcurrencyLimit

\* C9: the learnings and the visitedUrls returned by a call hold no string
\* twice.
C9_NoDuplicates ==
  \A n \in Calls :
    calls[n].pc = "returned" =>
      /\ NoDuplicates(calls[n].result.learnings)
      /\ NoDuplicates(calls[n].result.visitedUrls)

\* C9 witness: a call returned a learning that two of its branches both
\* delivered.
C9_Witness ==
  \E n \in Calls :
    /\ calls[n].pc = "returned"
    /\ \E i, j \in Branches(n) :
         /\ i # j
         /\ Range(calls[n].br[i].res.learnings)
              \cap Range(calls[n].br[j].res.learnings) # {}

\* What the answers of the external calls determine, computed from the
\* answers alone: the learnings and URLs handed down to call n, and what
\* call n must return when no branch result is lost.
RECURSIVE PriorLearnings(_), PriorUrls(_)
PriorLearnings(n) ==
  IF n = Root THEN Range(calls[Root].learnings)
  ELSE PriorLearnings(Parent(n))
         \cup Range(calls[Parent(n)].br[n[Len(n)]].newLearnings)

PriorUrls(n) ==
  IF n = Root THEN Range(calls[Root].visitedUrls)
  ELSE PriorUrls(Parent(n)) \cup Range(calls[Parent(n)].br[n[Len(n)]].newUrls)

BranchFails(n, i) ==
  calls[n].br[i].search # "ok" \/ calls[n].br[i].extract = "malformed"

RECURSIVE ExpectedLearnings(_), ExpectedUrls(_)
ExpectedLearnings(n) ==
  UNION {IF BranchFails(n, i) THEN {}
         ELSE IF calls[n].depth - 1 > 0 THEN ExpectedLearnings(Append(n, i))
         ELSE PriorLearnings(n) \cup Range(calls[n].br[i].newLearnings)
         : i \in Branches(n)}

ExpectedUrls(n) ==
  UNION {IF BranchFails(n, i) THEN {}
         ELSE IF calls[n].depth - 1 > 0 THEN ExpectedUrls(Append(n, i))
         ELSE PriorUrls(n) \cup Range(calls[n].br[i].newUrls)
         : i \in Branches(n)}

\* C10: with an observer that does not throw, the set of learnings and the
\* set of URLs a call returns are those its external answers determine,
\* whatever the order in which its branches and those of the calls below
\* it started, suspended and completed.
C10_OrderIndependent ==
  observer = "ok" =>
    \A n \in Calls :
      calls[n].pc = "returned" =>
        /\ Range(calls[n].result.learnings) = ExpectedLearnings(n)
        /\ Range(calls[n].result.visitedUrls) = ExpectedUrls(n)

\* C10 witness: the top-level call returned after two branches that ran at
\* the same time completed in the reverse of their starting order and
\* brought different learnings.
C10_Witness ==
  /\ observer = "ok"
  /\ calls[Root].pc = "returned"
  /\ \E i, j \in Branches(Root) :
       /\ i < j
       /\ calls[Root].progress.currentQuery = i
       /\ calls[Root].depth = 1
       /\ Range(calls[Root].br[i].res.learnings)
            # Range(calls[Root].br[j].res.learnings)
       /\ calls[Root].br[i].res # EmptyResult
       /\ calls[Root].br[j].res # EmptyResult

\* no call made by deepResearch n failed: query generation, every search and
\* every extraction answered, and the observer does not throw
NoFailingCall(n) ==
  /\ observer = "ok"
  /\ calls[n].gen = "ok"
  /\ \A i \in Branches(n) :
       calls[n].br[i].search = "ok" /\ calls[n].br[i].extract = "ok"

\* the passed-in learnings with those every branch extracted, and the
\* passed-in URLs with those of the documents every branch fetched
UnionLearnings(n) ==
  Range(calls[n].learnings)
    \cup UNION {Range(calls[n].br[i].newLearnings) : i \in Branches(n)}

UnionUrls(n) ==
  Range(calls[n].visitedUrls)
    \cup UNION {Range(calls[n].br[i].newUrls) : i \in Branches(n)}

LeafUnion(n) ==
  /\ \A i \in Branches(n) : Append(n, i) \notin Calls
  /\ Range(calls[n].result.learnings) = UnionLearnings(n)
  /\ Range(calls[n].result.visitedUrls) = UnionUrls(n)
  /\ "" \notin Range(calls[n].result.visitedUrls)

\* C11: a call with depth = 1 and no failing call makes no recursive call
\* and returns exactly the passed-in learnings united with the learnings
\* each branch extracted, and the passed-in URLs united with the URLs of
\* the documents each branch fetched, documents without URL dropped.
C11_LeafUnion ==
  \A n \in Calls :
    (calls[n].depth = 1 /\ calls[n].pc = "returned" /\ NoFailingCall(n))
      => LeafUnion(n)

\* query generation of call n failed or returned the empty list
NoSubQueries(n) ==
  \/ calls[n].gen = "throw"
  \/ calls[n].gen = "ok" /\ calls[n].progress.totalQueries = 0

\* C12: with an observer that does not throw, a call whose query
\* generation failed or returned the empty list has returned empty
\* learnings and empty visitedUrls, has no branch task (so it made no
\* search call and no extraction call) and made no recursive call.
C12_NoQueriesNoWork ==
  observer = "ok" =>
    \A n \in Calls :
      NoSubQueries(n) =>
        /\ calls[n].pc = "returned"
        /\ calls[n].result = EmptyResult
        /\ calls[n].br = <<>>
        /\ \A m \in Calls : m # Root => Parent(m) # n

\* C12 witness: query generation failed in a recursive call that had been
\* given learnings, and returned the empty list in another call.
C12_Witness ==
  /\ observer = "ok"
  /\ \E n \in Calls :
       /\ n # Root
       /\ calls[n].gen = "throw"
       /\ calls[n].learnings # <<>>
       /\ calls[n].pc = "returned"
  /\ \E n \in Calls : calls[n].gen = "ok" /\ calls[n].progress.totalQueries = 0

\* C13: a branch whose primary search returned zero documents has made
\* exactly one more search call, the fallback, before extraction runs; a
\* branch whose primary search returned a document has made no other.
C13_FallbackOnEmpty ==
  \A n \in Calls : \A i \in Branches(n) :
    calls[n].br[i].search = "ok" =>
      SearchCalls(n, i) = (IF calls[n].br[i].docs = 0 THEN 2 ELSE 1)

\* C14: in the progress record of every call, completedQueries is at most
\* that call's totalQueries in every reachable state, and no step of any
\* branch in any interleaving decreases it.
C14_CompletedQueries ==
  /\ [](\A n \in Calls :
         /\ calls[n].progress.completedQueries >= 0
         /\ calls[n].progress.completedQueries
              <= calls[n].progress.totalQueries)
  /\ [][\A n \in Calls :
          calls'[n].progress.completedQueries
            >= calls[n].progress.completedQueries]_vars

\* C14 witness: a call with a recursive call below it has counted every
\* one of its two or more sub-queries, the first of them reporting last.
C14_Witness ==
  \E n \in Calls :
    /\ calls[n].progress.totalQueries >= 2
    /\ calls[n].progress.completedQueries = calls[n].progress.totalQueries
    /\ calls[n].progress.currentQuery = 1
    /\ \E i \in Branches(n) : Append(n, i) \in Calls

\* generateSerpQueries returned in a call of its own
SerpReturned == unit.fn = "generateSerpQueries" /\ unit.pc = "returned"

\* C15: generateSerpQueries returns at most numQueries sub-queries, each
\* with a query string that is not empty, whatever text the model answers.
C15_BoundedNonEmpty ==
  SerpReturned =>
    /\ Len(unit.out.queries) <= unit.numQueries
    /\ \A k \in 1..Len(unit.out.queries) : unit.out.queries[k].query # <<>>

\* C16: no two sub-queries returned by one generateSerpQueries call have
\* query strings that are equal after trimming.
C16_Deduplicated ==
  SerpReturned =>
    \A j, k \in 1..Len(unit.out.queries) :
      Trim(unit.out.queries[j].query) = Trim(unit.out.queries[k].query)
        => j = k

\* the lines of the text that are not blank
NonBlank(text) == SelectSeq(text, LAMBDA line : Trim(line) # <<>>)

\* no line of the text is a numbered query line
NoNumberedLine(text) == \A k \in 1..Len(text) : QueryMatch(text[k]) = <<>>

\* a query is open (a numbered line, then only bullet or starred lines)
\* when a line comes that holds "focus:" and no "Focus:": reading the goal
\* after "Focus:" raises a TypeError
GoalRaises(text) ==
  LET lines == NonBlank(text)
  IN  \E j, k \in 1..Len(lines) :
        /\ j < k
        /\ QueryMatch(lines[j]) # <<>>
        /\ QueryMatch(lines[k]) = <<>>
        /\ "focus:" \in Range(lines[k])
        /\ "Focus:" \notin Range(lines[k])
        /\ \A m \in (j + 1)..(k - 1) :
             /\ QueryMatch(lines[m]) = <<>>
             /\ lines[m][1] \in {"*", "-"}
             /\ Range(lines[m]) \cap {"focus:", "Focus:"} = {}

\* C17: generateSerpQueries never throws to its caller; when the model call
\* failed, or no line of the text is a numbered query line, or the parsing
\* raised an exception, it returns the empty list.
C17_NeverThrows ==
  SerpReturned =>
    /\ unit.out.kind = "return"
    /\ (\/ unit.resp.kind = "throw"
        \/ NoNumberedLine(unit.resp.text)
        \/ GoalRaises(unit.resp.text))
         => unit.out.queries = <<>>

\* C17 witness: the call returned the empty list for a text whose first
\* line is a numbered query and whose parsing raised at a later line.
C17_Witness ==
  /\ SerpReturned
  /\ unit.resp.kind = "ok"
  /\ Len(unit.resp.text) = MaxLines
  /\ QueryMatch(unit.resp.text[1]) # <<>>
  /\ GoalRaises(unit.resp.text)
  /\ unit.out = [kind |-> "return", queries |-> <<>>]

\* C18: processSerpResult returns at most numLearnings learnings and at
\* most numFollowUpQuestions follow-up questions, whatever lists the model
\* returns.
C18_ListsBounded ==
  (unit.fn = "processSerpResult" /\ unit.pc = "returned") =>
    /\ Len(unit.out.learnings) <= unit.numLearnings
    /\ Len(unit.out.followUpQuestions) <= unit.numFollowUpQuestions

\* C19: writeFinalReport never throws, and every string it returns, the
\* report as well as the placeholder returned when report synthesis
\* failed, holds the Sources heading followed by a line for every URL of
\* visitedUrls.
C19_ReportListsSources ==
  (unit.fn = "writeFinalReport" /\ unit.pc = "returned") =>
    /\ unit.out.kind = "return"
    /\ unit.resp.kind = "throw" =>
         /\ unit.out.text[1] = "Error generating report: "
         /\ unit.out.text[2] = unit.resp.msg
    /\ \E h \in 1..Len(unit.out.text) :
         /\ unit.out.text[h] = "\n\n## Sources\n\n"
         /\ \A u \in 1..Len(unit.visitedUrls) :
              \E k \in (h + 1)..(Len(unit.out.text) - 1) :
                /\ unit.out.text[k] = "- "
                /\ unit.out.text[k + 1] = unit.visitedUrls[u]

\* C19 witness: report synthesis failed and the placeholder was returned
\* for a list of MaxUrls URLs, two of them different.
C19_Witness ==
  /\ unit.fn = "writeFinalReport"
  /\ unit.pc = "returned"
  /\ unit.resp.kind = "throw"
  /\ Len(unit.visitedUrls) = MaxUrls
  /\ Cardinality(Range(unit.visitedUrls)) = 2
  /\ Len(unit.out.text) > 3

\* C20: the text trimPrompt returns encodes to at most the budget, for
\* every text and every positive budget, also when the chunk size falls
\* below MinChunkSize and the hard cut is returned.
C20_WithinBudget ==
  (unit.fn = "trimPrompt" /\ unit.pc = "returned") =>
    Tokens(unit.out, unit.per) <= unit.contextSize

\* the recursive call made by branch i of call n
Child(n, i) == Append(n, i)

\* the branch tasks of call n that hold a slot under a limiter that does
\* not count a recursing task
RunningNotRecursing(n) ==
  {i \in Branches(n) : calls[n].br[i].st \in {"searching", "extracting"}}

\* C21 as stated: a branch waiting for its recursive call holds no slot, so
\* a task of a call is queued only while ConcurrencyLimit tasks of that
\* call are searching or extracting.
C21_Original ==
  \A n \in Calls :
    (\E j \in Branches(n) : calls[n].br[j].st = "queued")
      => Cardinality(RunningNotRecursing(n)) = ConcurrencyLimit

\* C21 amended: a branch that recurses keeps its slot while its recursive
\* call is pending: next to a recursing branch at most ConcurrencyLimit - 1
\* other tasks of the call are running, and a sibling stays queued while
\* exactly that many are.
C21_RecursingHoldsSlot ==
  \A n \in Calls : \A i \in Branches(n) :
    calls[n].br[i].st = "recursing" =>
      /\ Child(n, i) \in Calls
      /\ calls[Child(n, i)].pc \in {"generating", "fanout"}
      /\ Cardinality(Unsettled(n) \ {i}) <= ConcurrencyLimit - 1
      /\ (\E j \in Branches(n) : calls[n].br[j].st = "queued")
           => Cardinality(Unsettled(n) \ {i}) = ConcurrencyLimit - 1

\* C21 witness: every slot of a call is held by a branch waiting for its
\* recursive call, none is searching or extracting, and a sibling is queued.
C21_Witness ==
  \E n \in Calls :
    /\ Cardinality({i \in Branches(n) : calls[n].br[i].st = "recursing"})
         = ConcurrencyLimit
    /\ RunningNotRecursing(n) = {}
    /\ \E j \in Branches(n) : calls[n].br[j].st = "queued"

\* m is a call made below call n
Below(n, m) == Len(m) > Len(n) /\ SubSeq(m, 1, Len(n)) = n

\* C22: a call that has returned has every branch settled and every call
\* below it returned with every branch settled; and once the top-level call
\* has returned no step of the run follows: no search or extraction call
\* settles and no progress report is made.
C22_AggregateAfterSubtree ==
  /\ [](\A n \in Calls :
         calls[n].pc = "returned" =>
           /\ \A i \in Branches(n) : calls[n].br[i].st = "settled"
           /\ \A m \in Calls :
                Below(n, m) =>
                  /\ calls[m].pc = "returned"
                  /\ \A i \in Branches(m) : calls[m].br[i].st = "settled")
  /\ [][calls[Root].pc = "returned" => calls' = calls]_vars

\* C22 witness: the top-level call has returned after two or more branches,
\* one of which recursed into a call that had branches of its own.
C22_Witness ==
  /\ calls[Root].pc = "returned"
  /\ Len(calls[Root].br) >= 2
  /\ \E i \in Branches(Root) :
       /\ Child(Root, i) \in Calls
       /\ calls[Child(Root, i)].br # <<>>

\* call n has made its initial progress report: a snapshot of its record
\* was handed to onProgress
Reported(n) == calls[n].gen # ""

\* C23 as stated: every snapshot handed to the observer during a run shows
\* the depth and breadth of the top-level call as totalDepth and
\* totalBreadth.
C23_Original ==
  \A n \in Calls :
    Reported(n) =>
      /\ calls[n].progress.totalDepth = calls[Root].depth
      /\ calls[n].progress.totalBreadth = calls[Root].breadth

\* C23 amended: every deepResearch call has its own progress record, whose
\* totalDepth and totalBreadth stay equal to that call's depth and breadth:
\* the snapshots of a recursive call show the parent's depth less one and
\* the parent's breadth halved, not the totals of the top-level call.
C23_RecordPerCall ==
  \A n \in Calls :
    /\ calls[n].progress.totalDepth = calls[n].depth
    /\ calls[n].progress.totalBreadth = calls[n].breadth
    /\ calls[n].progress.totalDepth = calls[Root].depth - Len(n)
    /\ n # Root =>
         calls[n].progress.totalBreadth = NewBreadth(calls[Parent(n)].breadth)

\* C23 witness: the top-level call has reported a branch, and a recursive
\* call has handed the observer a snapshot whose totals are smaller than
\* the top-level depth and breadth.
C23_Witness ==
  /\ calls[Root].progress.completedQueries >= 1
  /\ \E n \in Calls \ {Root} :
       /\ Reported(n)
       /\ calls[n].progress.completedQueries >= 1
       /\ calls[n].progress.totalDepth < calls[Root].depth
       /\ calls[n].progress.totalBreadth < calls[Root].breadth

\* C24: a call makes no report and starts no branch while it awaits query
\* generation; the step in which generateSerpQueries settles makes the
\* initial report, with totalQueries the number of sub-queries (of branch
\* tasks created, none of which has searched yet), completedQueries 0,
\* currentQuery the first sub-query or absent (0), and the other fields as
\* they were; totalQueries is not reported again afterwards.
C24_InitialReport ==
  /\ [](\A n \in Calls :
         calls[n].pc = "generating" =>
           /\ calls[n].br = <<>>
           /\ calls[n].progress.totalQueries = 0
           /\ calls[n].progress.completedQueries = 0
           /\ calls[n].progress.currentQuery = 0)
  /\ [][\A n \in Calls :
          (calls[n].pc = "generating" /\ calls'[n].pc # "generating") =>
            LET k == calls'[n].progress.totalQueries
            IN  /\ calls'[n].pc # "rejected" => k = Len(calls'[n].br)
                /\ k <= calls[n].breadth
                /\ calls'[n].progress =
                     [calls[n].progress EXCEPT
                        !.totalQueries = k,
                        !.currentQuery = IF k > 0 THEN 1 ELSE 0]
                /\ \A i \in 1..Len(calls'[n].br) :
                     calls'[n].br[i].search = ""]_vars
  /\ [][\A n \in Calls :
          calls[n].pc # "generating" =>
            calls'[n].progress.totalQueries
              = calls[n].progress.totalQueries]_vars

\* C24 witness: a recursive call has just made its initial report for two
\* or more sub-queries: none has searched, none is counted.
C24_Witness ==
  \E n \in Calls \ {Root} :
    /\ calls[n].pc = "fanout"
    /\ Len(calls[n].br) >= 2
    /\ \A i \in Branches(n) : calls[n].br[i].search = ""
    /\ calls[n].progress.totalQueries = Len(calls[n].br)
    /\ calls[n].progress.currentQuery = 1
    /\ calls[n].progress.completedQueries = 0

\* the branches of call n that made their progress report
ReportedBranches(n) == {i \in Branches(n) : calls[n].br[i].report # ""}

\* every branch task of call n has fulfilled
BranchesSettled(n) ==
  /\ calls[n].pc # "generating"
  /\ \A i \in Branches(n) : calls[n].br[i].st = "settled"

C26_ArgumentsGrow ==
  \A n \in Calls \ {Root} :
    LET p == Parent(n)
        i == n[Len(n)]
    IN  /\ calls[n].learnings
             = calls[p].learnings \o calls[p].br[i].newLearnings
        /\ calls[n].visitedUrls
             = calls[p].visitedUrls \o calls[p].br[i].newUrls
        /\ \A a \in Calls :
             Below(a, n) =>
               /\ Range(calls[a].learnings) \subseteq Range(calls[n].learnings)
               /\ Range(calls[a].visitedUrls)
                    \subseteq Range(calls[n].visitedUrls)
               /\ Len(calls[a].learnings) <= Len(calls[n].learnings)
               /\ Len(calls[a].visitedUrls) <= Len(calls[n].visitedUrls)

\* C26 witness: a call two levels below the top-level call holds the
\* learning and URL passed to the top-level call and what the two branches
\* above it extracted and found.
C26_Witness ==
  \E n \in Calls :
    /\ Len(n) = 2
    /\ calls[Root].learnings # <<>>
    /\ Len(calls[n].learnings) = Len(calls[Root].learnings) + 2
    /\ Len(calls[n].visitedUrls) = Len(calls[Root].visitedUrls) + 2

\* C27: every sub-query generateSerpQueries returns has a researchGoal that
\* is not empty, whatever follows its numbered line in the model's text.
C27_GoalNonEmpty ==
  SerpReturned =>
    \A k \in 1..Len(unit.out.queries) :
      unit.out.queries[k].researchGoal # <<>>

\* the search adapter returned in a call of its own
SearchAdapterReturned == unit.fn = "search" /\ unit.pc = "returned"

\* the failure the adapter takes for a timeout of the provider
IsTimeout(resp) ==
  resp.kind = "fail" /\ resp.error.axios /\ resp.error.code = "ECONNABORTED"

\* the call fails: axios.get fails, or a link among the elements worked on
\* does not decode
AdapterFails(resp, limit) ==
  \/ resp.kind = "fail"
  \/ \E k \in 1..Len(resp.results) : k <= limit /\ resp.results[k] = "bad"

\* C28: the search adapter returns a response whatever happens: on a
\* timeout an unsuccessful one without documents and with error 'Timeout',
\* on any other failure an unsuccessful one without documents and with
\* another error value, and otherwise a successful one with at most limit
\* documents.
C28_AdapterNeverThrows ==
  SearchAdapterReturned =>
    /\ unit.out.kind = "return"
    /\ IsTimeout(unit.resp) =>
         /\ ~unit.out.success
         /\ unit.out.data = <<>>
         /\ unit.out.error = "Timeout"
    /\ (AdapterFails(unit.resp, unit.limit) /\ ~IsTimeout(unit.resp)) =>
         /\ ~unit.out.success
         /\ unit.out.data = <<>>
         /\ unit.out.error \notin {"Timeout", ""}
    /\ ~AdapterFails(unit.resp, unit.limit) =>
         /\ unit.out.success
         /\ Len(unit.out.data) <= unit.limit
         /\ Len(unit.out.data) <= Len(unit.resp.results)

\* C28 witness: the page held more results than limit, one of them beyond
\* the limit with a link that does not decode, and the adapter returned
\* limit documents.
C28_Witness ==
  /\ SearchAdapterReturned
  /\ unit.limit >= 1
  /\ Len(unit.resp.results) > unit.limit
  /\ \E k \in 1..Len(unit.resp.results) : unit.resp.results[k] = "bad"
  /\ unit.out.success
  /\ Len(unit.out.data) = unit.limit

\* C29: of the branch tasks of one call at most ConcurrencyLimit have
\* started and not settled, a recursing one among them for as long as its
\* recursive call has not returned; the tasks that have started are the
\* first ones in sub-query order; and a queued task starts only in a step
\* in which a running task of its call settles.
C29_StartOrder ==
  /\ [](\A n \in Calls :
         /\ Cardinality(Unsettled(n)) <= ConcurrencyLimit
         /\ \A i \in Branches(n) :
              calls[n].br[i].st = "recursing" =>
                /\ i \in Unsettled(n)
                /\ calls[Child(n, i)].pc # "returned"
         /\ \A i, j \in Branches(n) :
              (i < j /\ calls[n].br[j].st # "queued")
                => calls[n].br[i].st # "queued")
  /\ [][\A n \in Calls : \A j \in Branches(n) :
          (calls[n].br[j].st = "queued" /\ calls'[n].br[j].st # "queued") =>
            \E i \in Branches(n) :
              /\ calls[n].br[i].st \in Running
              /\ calls'[n].br[i].st \in {"settled", "rejected"}]_vars

\* C29 witness: in a call of four or more sub-queries the first branch has
\* settled, the second waits for its recursive call, the third has started
\* and the fourth is queued.
C29_Witness ==
  \E n \in Calls :
    /\ Len(calls[n].br) >= 4
    /\ calls[n].br[1].st = "settled"
    /\ calls[n].br[2].st = "recursing"
    /\ calls[n].br[3].st \in Running
    /\ calls[n].br[4].st = "queued"

\* the observer threw at the initial report of call n: the call rejected
\* before it created a branch task
InitialReportThrew(n) == calls[n].pc = "rejected" /\ calls[n].br = <<>>

\* C30: a branch at whose progress report the observer threw fulfils with
\* the empty result and makes no recursive call, and its call does not
\* reject because of it (a call rejects only when its initial report threw
\* or a branch promise rejected); a call at whose initial report the
\* observer threw is rejected, and so are every call above it and the
\* branch of each that leads to it.
C30_ObserverExceptions ==
  \A n \in Calls :
    /\ \A i \in Branches(n) :
         calls[n].br[i].report = "throw" =>
           /\ calls[n].br[i].st = "settled"
           /\ calls[n].br[i].res = EmptyResult
           /\ Child(n, i) \notin Calls
    /\ calls[n].pc = "rejected" =>
         \/ InitialReportThrew(n)
         \/ \E j \in Branches(n) :
              /\ calls[n].br[j].st = "rejected"
              /\ Child(n, j) \in Calls
              /\ calls[Child(n, j)].pc = "rejected"
    /\ InitialReportThrew(n) =>
         \A a \in Calls :
           Below(a, n) =>
             /\ calls[a].pc = "rejected"
             /\ calls[a].br[n[Len(a) + 1]].st = "rejected"

\* C30 witness: the observer threw at the report of a branch whose call
\* then returned, and at the initial report of a recursive call, which
\* rejected the top-level call.
C30_Witness ==
  /\ \E n \in Calls \ {Root} :
       /\ calls[n].pc = "returned"
       /\ \E i \in Branches(n) : calls[n].br[i].report = "throw"
  /\ \E m \in Calls \ {Root} : InitialReportThrew(m)
  /\ calls[Root].pc = "rejected"

Max(a, b) == IF a > b THEN a ELSE b

\* the search level of the branches of call n: 1 for the top-level call
Level(n) == Len(n) + 1

\* branch i of call n searched, extracted, reported and returned its merged
\* lists without a recursive call
LeafBranch(n, i) ==
  /\ calls[n].br[i].st = "settled"
  /\ calls[n].br[i].report = "ok"
  /\ Child(n, i) \notin Calls

\* C31: a call with depth 0 is the top-level call and makes no recursive
\* call, yet it creates one branch per sub-query, each of which searches
\* once and, when nothing fails, returns what was passed in followed by
\* what it extracted and found; and in every run the branches that finish
\* without recursing are those of level max(1, depth), the branches above
\* that level having recursed.
C31_DepthZeroSearchesOnce ==
  \A n \in Calls :
    /\ calls[n].depth = 0 =>
         /\ n = Root
         /\ Calls = {Root}
         /\ calls[n].pc # "generating" =>
              Len(calls[n].br)
                <= calls[n].breadth
         /\ \A i \in Branches(n) :
              /\ calls[n].br[i].st # "queued" => SearchCalls(n, i) = 1
              /\ calls[n].br[i].report = "ok" =>
                   /\ LeafBranch(n, i)
                   /\ calls[n].br[i].res =
                        [learnings |-> calls[n].learnings
                                         \o calls[n].br[i].newLearnings,
                         visitedUrls |-> calls[n].visitedUrls
                                           \o calls[n].br[i].newUrls]
    /\ \A i \in Branches(n) :
         /\ LeafBranch(n, i) => Level(n) = Max(1, calls[Root].depth)
         /\ (calls[n].br[i].report = "ok"
               /\ Level(n) < Max(1, calls[Root].depth))
              => Child(n, i) \in Calls

\* C31 witness: a top-level call with depth 0 has returned what two
\* branches searched and extracted, without any recursive call.
C31_Witness ==
  /\ calls[Root].depth = 0
  /\ calls[Root].pc = "returned"
  /\ Calls = {Root}
  /\ Len(calls[Root].br) >= 2
  /\ \E i, j \in Branches(Root) :
       /\ i # j
       /\ LeafBranch(Root, i) /\ calls[Root].br[i].newLearnings # <<>>
       /\ LeafBranch(Root, j) /\ calls[Root].br[j].newUrls # <<>>
  /\ calls[Root].result.learnings # <<>>
  /\ calls[Root].result.visitedUrls # <<>>

TypeOK ==
  /\ observer \in Observers
  /\ unit.fn \in {"none", "generateSerpQueries", "processSerpResult",
                  "writeFinalReport", "trimPrompt", "search"}
  /\ env \in {"any", "fixed"}
  /\ \A n \in DOMAIN calls :
       calls[n].pc \in {"generating", "fanout", "returned", "rejected"}

====
